---------------------------- MODULE Spec2Model ----------------------------
(***************************************************************************)
(* Verification model of VecRepV3: the matrix validator, the embedding     *)
(* extraction (mPCA) with its calibration callers, and the k-neighbour     *)
(* score of src/data_processing/EmbeddingFunctions.py and                  *)
(* src/visualization/Metrics.py.                                           *)
(*                                                                         *)
(* The functions are pure.  A call is modelled as a frame: `args` holds    *)
(* the arguments, `op` the function that ran on them, `ret` what it        *)
(* returned or raised, and `events` the calls it made, in order.  `given`   *)
(* records how the argument matrix was built (its eigenvalues), for the    *)
(* properties to refer to; no function reads it.                           *)
(*                                                                         *)
(* Numbers.  Matrix entries and eigenvalues are exact integers (reals in   *)
(* unit 1).  A tolerance of 1e-5 is the rational 1/TolInv.  An entry of an *)
(* embedding matrix is sqrt(eigenvalue) * eigenvector entry, in general    *)
(* irrational; it is carried exactly as a sign and the square of its       *)
(* magnitude, the square being the fraction num/den.                       *)
(***************************************************************************)
EXTENDS Integers, Sequences, FiniteSets, TLC

VARIABLES op, args, ret, events, given

vars == <<op, args, ret, events, given>>

(***************************************************************************)
(* Bounds of the model.                                                    *)
(***************************************************************************)
\* largest number of rows or of columns of a matrix given to the validator
MaxDim == 3
\* largest number of cells of a matrix given to the validator
MaxCells == 9
\* longest row given to the k-neighbour score
MaxRowLen == 4
\* largest value in a row given to the k-neighbour score (values 0..MaxVal)
MaxVal == 1
\* largest dimension N of a matrix given to the calibration and extraction
MaxN == 2
\* eigenvalues of those matrices range over -MaxEig..MaxEig
MaxEig == 2

(***************************************************************************)
(* Matrices: a matrix is a sequence of rows, a row a sequence of numbers.  *)
(***************************************************************************)
Abs(x) == IF x < 0 THEN -x ELSE x

NumRows(a) == Len(a)

NumCols(a) == Len(a[1])

Transpose(a) == [j \in 1..NumCols(a) |-> [i \in 1..NumRows(a) |-> a[i][j]]]

\* Python's None is the empty tuple, a given value v the tuple <<v>>.
None == << >>

Some(v) == <<v>>

(***************************************************************************)
(* check_symmetric: np.allclose(a, a.T, atol=1e-05), numpy's rtol being    *)
(* 1e-05 as well: |x - y| <= atol + rtol * |y| elementwise, after          *)
(* broadcasting a against a.T.  In integers, with atol = rtol = 1/TolInv,  *)
(* |x - y| <= (1 + |y|) / TolInv  iff  |x - y| <= (1 + |y|) \div TolInv.   *)
(***************************************************************************)
TolInv == 100000

isclose_np(x, y) == Abs(x - y) <= (1 + Abs(y)) \div TolInv

\* Shapes (R, C) and (C, R) broadcast when R = C, or when R or C is 1 (to
\* the square shape max(R, C)); otherwise numpy raises ValueError.
check_symmetric(a) ==
    LET R == NumRows(a)
        C == NumCols(a)
    IN  IF R = C
          THEN IF \A i \in 1..R : \A j \in 1..C : isclose_np(a[i][j], a[j][i])
                 THEN "True" ELSE "False"
        ELSE IF R = 1
          THEN IF \A i \in 1..C : \A j \in 1..C : isclose_np(a[1][j], a[1][i])
                 THEN "True" ELSE "False"
        ELSE IF C = 1
          THEN IF \A i \in 1..R : \A j \in 1..R : isclose_np(a[i][1], a[j][1])
                 THEN "True" ELSE "False"
        ELSE "ValueError"

(***************************************************************************)
(* is_valid_matrix_g.  The errors are all ValueError in the source and     *)
(* differ by their message; the result names the message.                  *)
(***************************************************************************)
NoError == "ok"
ErrSymmetric == "Matrix G has to be a symmetric matrix"
ErrSquare == "Matrix G must be a square matrix"
ErrRankLow == "nDim has to be > 0"
ErrRankHigh == "nDim has to be < the length of matrixG"
ErrBroadcast == "operands could not be broadcast together"

ValidatorErrors == {ErrSymmetric, ErrSquare, ErrRankLow, ErrRankHigh}

Raise(e) == [err |-> e, matrixG |-> << >>, nDim |-> 0]

\* the normalisation left out: the matrix is handed back as it came
SymmetrizeSkipped(a) == a

\* (matrixG + matrixG.T) / 2; the sums are even on every matrix that
\* reaches this line in the model, so the halving is exact.
Symmetrize(a) ==
    [i \in 1..NumRows(a) |-> [j \in 1..NumCols(a) |-> (a[i][j] + a[j][i]) \div 2]]

\* the upper test off by one: nDim >= maxDim raises
ResolveRankStrict(nDim, maxDim) ==
    LET n == IF nDim = None THEN maxDim ELSE nDim[1]
    IN  IF n <= 0 THEN [err |-> ErrRankLow, nDim |-> 0]
        ELSE IF n >= maxDim THEN [err |-> ErrRankHigh, nDim |-> 0]
        ELSE [err |-> NoError, nDim |-> n]

\* lines 257-263: the rank against maxDim = len(matrixG[0])
ResolveRank(nDim, maxDim) ==
    LET n == IF nDim = None THEN maxDim ELSE nDim[1]
    IN  IF n <= 0 THEN [err |-> ErrRankLow, nDim |-> 0]
        ELSE IF n > maxDim THEN [err |-> ErrRankHigh, nDim |-> 0]
        ELSE [err |-> NoError, nDim |-> n]

IsSquare(a) == \A i \in 1..NumRows(a) : Len(a[i]) = NumRows(a)

is_valid_matrix_g(matrixG, nDim) ==
    LET sym == check_symmetric(matrixG)
    IN  IF sym = "ValueError" THEN Raise(ErrBroadcast)
        ELSE IF sym = "False" THEN Raise(ErrSymmetric)
        ELSE IF ~IsSquare(matrixG) THEN Raise(ErrSquare)
        ELSE LET g == Symmetrize(matrixG)
                 rank == ResolveRank(nDim, Len(g[1]))
             IN  IF rank.err # NoError THEN Raise(rank.err)
                 ELSE [err |-> NoError, matrixG |-> g, nDim |-> rank.nDim]

(***************************************************************************)
(* The validator on its own: every matrix of at most MaxDim rows and       *)
(* columns and MaxCells cells whose entries are far apart (0 against the   *)
(* others), close within the tolerance (2*TolInv against 2*TolInv + 2) or  *)
(* equal, with every rank from -1 to MaxDim + 1 and the unspecified rank.  *)
(***************************************************************************)
Entries == {0, 2 * TolInv, 2 * TolInv + 2}

Shapes == {s \in (1..MaxDim) \X (1..MaxDim) : s[1] * s[2] <= MaxCells}

RawMatrices == UNION {[1..s[1] -> [1..s[2] -> Entries]] : s \in Shapes}

RankArgs == {None} \cup {Some(n) : n \in (-1)..(MaxDim + 1)}

InitValidator ==
    /\ op = "input"
    /\ args \in [matrixG : RawMatrices, nDim : RankArgs]
    /\ ret = Raise(NoError)
    /\ events = << >>
    /\ given = << >>

\* is_valid_matrix_g(matrixG, nDim) on the arguments drawn
Validate ==
    /\ op = "input"
    /\ op' = "is_valid_matrix_g"
    /\ ret' = is_valid_matrix_g(args.matrixG, args.nDim)
    /\ events' = <<"is_valid_matrix_g">>
    /\ UNCHANGED <<args, given>>

\* is_valid_matrix_g applied to what a first call returned
Revalidate ==
    /\ op = "is_valid_matrix_g"
    /\ ret.err = NoError
    /\ op' = "is_valid_matrix_g again"
    /\ args' = [matrixG |-> ret.matrixG, nDim |-> Some(ret.nDim)]
    /\ ret' = is_valid_matrix_g(ret.matrixG, Some(ret.nDim))
    /\ events' = Append(events, "is_valid_matrix_g")
    /\ UNCHANGED given

NextValidator == Validate \/ Revalidate

SpecValidator == InitValidator /\ [][NextValidator]_vars

(***************************************************************************)
(* Claims about the validator (checked under SpecValidator).               *)
(***************************************************************************)
\* the argument matrix is N x N and symmetric within the tolerance
SymmetricInput ==
    /\ NumRows(args.matrixG) = NumCols(args.matrixG)
    /\ \A i \in 1..NumRows(args.matrixG) : \A j \in 1..NumRows(args.matrixG) :
          Abs(args.matrixG[i][j] - args.matrixG[j][i])
             <= (1 + Abs(args.matrixG[j][i])) \div TolInv

ValidRankArg ==
    /\ args.nDim # None
    /\ args.nDim[1] \in 1..NumCols(args.matrixG)

\* C1: on a square matrix G symmetric within tolerance and a rank r in
\* 1..N, is_valid_matrix_g returns (G + G.T)/2 together with r, and
\* is_valid_matrix_g applied to that result returns the same matrix and the
\* same rank.
C1_ValidateNormalisesAndIsIdempotent ==
    /\ (op = "is_valid_matrix_g" /\ SymmetricInput /\ ValidRankArg) =>
          /\ ret.err = NoError
          /\ ret.nDim = args.nDim[1]
          /\ Len(ret.matrixG) = NumRows(args.matrixG)
          /\ \A i \in 1..NumRows(args.matrixG) :
                /\ Len(ret.matrixG[i]) = NumCols(args.matrixG)
                /\ \A j \in 1..NumCols(args.matrixG) :
                      2 * ret.matrixG[i][j] = args.matrixG[i][j] + args.matrixG[j][i]
    /\ op = "is_valid_matrix_g again" =>
          /\ ret.err = NoError
          /\ ret.matrixG = args.matrixG
          /\ Some(ret.nDim) = args.nDim

\* the second application has run on a matrix that the first one averaged
\* out of two unequal entries
C1_Witness ==
    /\ op = "is_valid_matrix_g again"
    /\ ret.err = NoError
    /\ \E i \in 1..Len(args.matrixG) : \E j \in 1..Len(args.matrixG) :
          args.matrixG[i][j] = 2 * TolInv + 1

argpartition_top(a, k) ==
    UNION {{[idx |-> S, first |-> p] : p \in {i \in S : \A j \in S : a[i] <= a[j]}} :
           S \in {T \in SUBSET DOMAIN a :
                    /\ Cardinality(T) = k
                    /\ \A i \in T : \A j \in DOMAIN a \ T : a[i] >= a[j]}}

\* the tie set replaces the top indices instead of extending them
TiesOnly(top, ties) == ties

\* the top indices are kept as they are, without the ties
WithoutTies(top, ties) == top

\* line 31: np.union1d(imgProd_max_index, kth_element_index)
union1d(top, ties) == top \cup ties

\* the largest of the top elements read instead of the first
LargestTopElement(imageProducts, imgTop) ==
    imageProducts[CHOOSE i \in imgTop.idx :
                     \A j \in imgTop.idx : imageProducts[i] >= imageProducts[j]]

\* line 27: kth_element = imageProducts[imgProd_max_index[0]]
KthElement(imageProducts, imgTop) == imageProducts[imgTop.first]

\* get_k_neighbour_score, given what the two argpartition calls returned
get_k_neighbour_score(imageProducts, embeddingDotProducts, k, imgTop, embTop) ==
    LET kth_element == KthElement(imageProducts, imgTop)
        kth_element_index == {i \in DOMAIN imageProducts : imageProducts[i] = kth_element}
        imgProd_max_index == union1d(imgTop.idx, kth_element_index)
        similar_neighbours == imgProd_max_index \cap embTop.idx
    IN  [res |-> Cardinality(similar_neighbours) - 1,
         imgTop |-> imgTop.idx,
         embTop |-> embTop.idx,
         kth_element |-> kth_element,
         imgProd_max_index |-> imgProd_max_index]

\* float(kNeighScore / k), kept as the fraction num/den
get_normed_k_neighbour_score(imageProducts, embeddingDotProducts, k, imgTop, embTop) ==
    LET score == get_k_neighbour_score(imageProducts, embeddingDotProducts, k, imgTop, embTop)
    IN  [res |-> [num |-> score.res, den |-> k], kNeighScore |-> score]

RECURSIVE SumNum(_)
SumNum(fs) == IF fs = << >> THEN 0 ELSE fs[1].num + SumNum(Tail(fs))

\* statistics.mean of fractions that share the denominator den
mean(fs, den) == [num |-> SumNum(fs), den |-> den * Len(fs)]

ScoreRows(n) == [1..n -> 0..MaxVal]

SwapRows(m) == <<m[2], m[1]>>

\* The arguments drawn: for get_normed_k_neighbour_score two rows of equal
\* length N and k in 1..N-1; for get_mean_normed_k_neighbour_score a matrix
\* of two rows of length N < MaxRowLen, against itself or against its rows
\* swapped, and k in 1..N-1.
InitScore ==
    /\ op = "input"
    /\ \/ \E n \in 2..MaxRowLen :
             args \in [imageProducts : ScoreRows(n),
                       embeddingDotProducts : ScoreRows(n), k : 1..(n - 1)]
       \/ \E n \in 2..(MaxRowLen - 1) :
          \E g \in ScoreRows(n) \X ScoreRows(n) :
             args \in [matrixG : {g}, matrixGprime : {g, SwapRows(g)}, k : 1..(n - 1)]
    /\ ret = [kNeighArray |-> << >>]
    /\ events = << >>
    /\ given = << >>

\* get_normed_k_neighbour_score(imageProducts, embeddingDotProducts, k)
NormedScore ==
    /\ op = "input"
    /\ "imageProducts" \in DOMAIN args
    /\ \E imgTop \in argpartition_top(args.imageProducts, args.k + 1) :
       \E embTop \in argpartition_top(args.embeddingDotProducts, args.k + 1) :
          ret' = get_normed_k_neighbour_score(args.imageProducts,
                    args.embeddingDotProducts, args.k, imgTop, embTop)
    /\ op' = "get_normed_k_neighbour_score"
    /\ events' = <<"get_k_neighbour_score">>
    /\ UNCHANGED <<args, given>>

\* one iteration of the loop over rowIndex (line 55): the row's normed
\* score is any of the values the two argpartition calls allow
MeanRow ==
    /\ op = "input"
    /\ "matrixG" \in DOMAIN args
    /\ Len(ret.kNeighArray) < Len(args.matrixG)
    /\ LET rowIndex == Len(ret.kNeighArray) + 1
           scores == {get_normed_k_neighbour_score(args.matrixG[rowIndex],
                         args.matrixGprime[rowIndex], args.k, imgTop, embTop).res :
                      <<imgTop, embTop>> \in
                         argpartition_top(args.matrixG[rowIndex], args.k + 1)
                         \X argpartition_top(args.matrixGprime[rowIndex], args.k + 1)}
       IN  \E score \in scores :
              ret' = [kNeighArray |-> Append(ret.kNeighArray, score)]
    /\ events' = Append(events, "get_normed_k_neighbour_score")
    /\ UNCHANGED <<op, args, given>>

\* return mean(kNeighArray) (line 56)
MeanReturn ==
    /\ op = "input"
    /\ "matrixG" \in DOMAIN args
    /\ Len(ret.kNeighArray) = Len(args.matrixG)
    /\ op' = "get_mean_normed_k_neighbour_score"
    /\ ret' = [kNeighArray |-> ret.kNeighArray, res |-> mean(ret.kNeighArray, args.k)]
    /\ UNCHANGED <<args, events, given>>

NextScore == NormedScore \/ MeanRow \/ MeanReturn

SpecScore == InitScore /\ [][NextScore]_vars

(***************************************************************************)
(* Claims about the k-neighbour score (checked under SpecScore).           *)
(***************************************************************************)
\* C8: get_normed_k_neighbour_score(v, v, k) is 1.0 whichever indices the
\* two top-(k+1) selections pick among tied values, and so is
\* get_mean_normed_k_neighbour_score(G, G, k).
C8_PerfectEmbeddingScoresOne ==
    /\ (op = "get_normed_k_neighbour_score"
          /\ args.imageProducts = args.embeddingDotProducts) =>
          (ret.res.num = ret.res.den /\ ret.res.den = args.k)
    /\ (op = "get_mean_normed_k_neighbour_score"
          /\ args.matrixG = args.matrixGprime) =>
          (ret.res.num = ret.res.den /\ ret.res.den = 2 * args.k)

\* a row with a tie at the (k+1)-th place has been scored against itself,
\* the two selections having picked different indices
C8_Witness ==
    /\ op = "get_normed_k_neighbour_score"
    /\ args.imageProducts = args.embeddingDotProducts
    /\ ret.kNeighScore.imgTop # ret.kNeighScore.embTop
    /\ ret.res.num = args.k

\* C9: get_normed_k_neighbour_score returns a value in [0, 1] for every
\* pair of rows of equal length N and every k in 1..N-1.
C9_NormedScoreInUnitInterval ==
    op = "get_normed_k_neighbour_score" =>
        (0 <= ret.res.num /\ ret.res.num <= ret.res.den)

\* C10: the score with the tie-inclusive similarity neighbourhood is at
\* least the score of the plain top-(k+1) similarity indices against the
\* same dot-product indices.
C10_TieExtensionNeverShrinks ==
    op = "get_normed_k_neighbour_score" =>
        ret.kNeighScore.res >=
            Cardinality(ret.kNeighScore.imgTop \cap ret.kNeighScore.embTop) - 1

\* the ties have added a neighbour: the score is larger than the plain one
C10_Witness ==
    /\ op = "get_normed_k_neighbour_score"
    /\ ret.kNeighScore.res >
          Cardinality(ret.kNeighScore.imgTop \cap ret.kNeighScore.embTop) - 1

\* the k-th largest value of row a, counted with repetitions
KthLargest(a, k) ==
    CHOOSE v \in {a[i] : i \in DOMAIN a} :
        /\ Cardinality({i \in DOMAIN a : a[i] > v}) < k
        /\ Cardinality({i \in DOMAIN a : a[i] >= v}) >= k

\* C19: get_k_neighbour_score(s, d, k) is |S \cap D| - 1, D being k + 1
\* indices of largest values of d and S all the indices whose value in s
\* is at least the (k + 1)-th largest value of s, which is the element
\* read as kth_element.
C19_ScoreCountsTieExtendedNeighbours ==
    op = "get_normed_k_neighbour_score" =>
        LET s == args.imageProducts
            d == args.embeddingDotProducts
            S == {i \in DOMAIN s : s[i] >= KthLargest(s, args.k + 1)}
            D == ret.kNeighScore.embTop
        IN  /\ ret.kNeighScore.kth_element = KthLargest(s, args.k + 1)
            /\ ret.kNeighScore.imgProd_max_index = S
            /\ Cardinality(D) = args.k + 1
            /\ \A i \in D : \A j \in DOMAIN d \ D : d[i] >= d[j]
            /\ ret.kNeighScore.res = Cardinality(S \cap D) - 1

\* the (k + 1)-th largest similarity is tied outside the k + 1 indices that
\* argpartition returned, and is not the largest one
C19_Witness ==
    /\ op = "get_normed_k_neighbour_score"
    /\ Cardinality(ret.kNeighScore.imgProd_max_index) > args.k + 1
    /\ \E i \in DOMAIN args.imageProducts :
          args.imageProducts[i] > ret.kNeighScore.kth_element

\* C25: the score depends on the two rows and k only: every admissible
\* selection of the k + 1 largest dot products, whichever tied indices it
\* takes, gives the score that was returned.
C25_ScoreIndependentOfTieBreaking ==
    op = "get_normed_k_neighbour_score" =>
        \A imgTop \in argpartition_top(args.imageProducts, args.k + 1) :
        \A embTop \in argpartition_top(args.embeddingDotProducts, args.k + 1) :
            get_k_neighbour_score(args.imageProducts, args.embeddingDotProducts,
                                  args.k, imgTop, embTop).res
               = ret.kNeighScore.res

(***************************************************************************)
(* Eigendecomposition.  np.linalg.eigh is LAPACK; it is modelled by its    *)
(* contract: for a symmetric G it returns eigenvalues w in ascending order *)
(* and orthonormal eigenvectors, G v_i = w_i v_i.  The matrices of the     *)
(* model are those diagonalised by one of the bases below; a basis is an   *)
(* integer matrix U with orthogonal columns u_i and c[i] = |u_i|^2, the    *)
(* eigenvector being u_i / sqrt(c[i]).                                     *)
(***************************************************************************)
\* the standard basis
StdBasis(n) ==
    [U |-> [j \in 1..n |-> [i \in 1..n |-> IF i = j THEN 1 ELSE 0]],
     c |-> [i \in 1..n |-> 1]]

\* (1,1)/sqrt 2 and (1,-1)/sqrt 2 on the first two coordinates, the
\* standard basis on the others
HadBasis(n) ==
    [U |-> [j \in 1..n |-> [i \in 1..n |->
              IF i <= 2 /\ j <= 2 THEN (IF i = 2 /\ j = 2 THEN -1 ELSE 1)
              ELSE IF i = j THEN 1 ELSE 0]],
     c |-> [i \in 1..n |-> IF i <= 2 THEN 2 ELSE 1]]

Bases(n) == IF n >= 2 THEN {StdBasis(n), HadBasis(n)} ELSE {StdBasis(n)}

RECURSIVE SumTo(_, _)
\* f[1] + ... + f[n]
SumTo(f, n) == IF n = 0 THEN 0 ELSE f[n] + SumTo(f, n - 1)

\* twice the matrix with eigenvalues lam on the basis B (c[i] divides 2)
TwiceMatrixOf(B, lam) ==
    LET n == Len(lam)
    IN  [j \in 1..n |-> [k \in 1..n |->
            SumTo([i \in 1..n |-> lam[i] * B.U[j][i] * B.U[k][i] * (2 \div B.c[i])], n)]]

HasIntegerEntries(B, lam) ==
    \A j \in 1..Len(lam) : \A k \in 1..Len(lam) : TwiceMatrixOf(B, lam)[j][k] % 2 = 0

MatrixOf(B, lam) ==
    [j \in 1..Len(lam) |-> [k \in 1..Len(lam) |-> TwiceMatrixOf(B, lam)[j][k] \div 2]]

\* eigh reads the lower triangle only (UPLO = 'L')
LowerSym(g) ==
    [j \in 1..Len(g) |-> [k \in 1..Len(g) |-> IF k <= j THEN g[j][k] ELSE g[k][j]]]

\* (g u_i)[j] and u_i . g u_i for column i of U
MatVec(g, U, i) == [j \in 1..Len(g) |-> SumTo([k \in 1..Len(g) |-> g[j][k] * U[k][i]], Len(g))]

Rayleigh(g, U, i) == SumTo([j \in 1..Len(g) |-> U[j][i] * MatVec(g, U, i)[j]], Len(g))

IsEigenBasis(g, B) ==
    \A i \in 1..Len(g) : \A j \in 1..Len(g) :
        B.c[i] * MatVec(g, B.U, i)[j] = Rayleigh(g, B.U, i) * B.U[j][i]

Sign(x) == IF x > 0 THEN 1 ELSE IF x < 0 THEN -1 ELSE 0

\* Every outcome np.linalg.eigh(g) may have: the eigenvalues w ascending,
\* and v[j][i], entry j of eigenvector i, as sign and square (num/den).
eigh(g) ==
    LET n == Len(g)
        L == LowerSym(g)
    IN  UNION {{[w |-> [i \in 1..n |-> Rayleigh(L, B.U, p[i]) \div B.c[p[i]]],
                 v |-> [j \in 1..n |-> [i \in 1..n |->
                          [sgn |-> Sign(B.U[j][p[i]]),
                           num |-> B.U[j][p[i]] * B.U[j][p[i]],
                           den |-> B.c[p[i]]]]]] :
               p \in {q \in Permutations(1..n) :
                        \A i \in 1..(n - 1) :
                           Rayleigh(L, B.U, q[i]) \div B.c[q[i]]
                              <= Rayleigh(L, B.U, q[i + 1]) \div B.c[q[i + 1]]}} :
              B \in {b \in Bases(n) : IsEigenBasis(L, b)}}

(***************************************************************************)
(* get_eig_for_symmetric and get_embeddings_mPCA.                          *)
(***************************************************************************)
ErrNonPSD == "Matrix G does not have al least nDim number of positive eigenvalues"

\* lines 175-183: every outcome, the eigenvalues now descending and the
\* eigenvector columns reversed with them
get_eig_for_symmetric(matrixG) ==
    IF check_symmetric(matrixG) # "True"
      THEN {[err |-> ErrSymmetric]}
      ELSE {[err |-> NoError,
             eigenvalues |-> [i \in 1..Len(matrixG) |-> e.w[Len(matrixG) + 1 - i]],
             eigenvectors |-> [j \in 1..Len(matrixG) |-> [i \in 1..Len(matrixG) |->
                                 e.v[j][Len(matrixG) + 1 - i]]]] :
            e \in eigh(matrixG)}

\* rel_tol of math.isclose (its default, 1e-09) and abs_tol of
\* get_embeddings_mPCA (its default, 1e-5), as inverses
RelTolInv == 1000000000
AbsTolInv == 100000

DefaultAbsTol == [num |-> 1, den |-> AbsTolInv]

\* math.isclose(eigenvalue, 0, abs_tol=abs_tol):
\* |e| <= max(rel_tol * |e|, abs_tol), abs_tol being num/den
isclose_zero(eigenvalue, abs_tol) ==
    \/ Abs(eigenvalue) <= Abs(eigenvalue) \div RelTolInv
    \/ Abs(eigenvalue) * abs_tol.den <= abs_tol.num

\* the test without its tolerance: eigenvalue > 0 only
StrictlyPositive(eigenvalue, abs_tol) == eigenvalue > 0

\* line 207: the test an eigenvalue among the first nDim has to pass
PassesPSDCheck(eigenvalue, abs_tol) ==
    eigenvalue > 0 \/ isclose_zero(eigenvalue, abs_tol)

\* line 211: eigenvalues[0 > eigenvalues] = 0
ClipNegative(eigenvalues) ==
    [i \in DOMAIN eigenvalues |-> IF 0 > eigenvalues[i] THEN 0 ELSE eigenvalues[i]]

RECURSIVE GCD(_, _)
GCD(a, b) == IF b = 0 THEN a ELSE GCD(b, a % b)

\* a fraction num/den >= 0 in lowest terms
Frac(num, den) ==
    IF num = 0 THEN [num |-> 0, den |-> 1]
    ELSE [num |-> num \div GCD(num, den), den |-> den \div GCD(num, den)]

FracAdd(p, q) == Frac(p.num * q.den + q.num * p.den, p.den * q.den)

RECURSIVE FracSum(_, _)
FracSum(f, n) == IF n = 0 THEN Frac(0, 1) ELSE FracAdd(f[n], FracSum(f, n - 1))

\* the squared Euclidean norm of column j of a matrix of signed roots
ColumnSqNorm(A, j) == FracSum([i \in 1..Len(A) |-> Frac(A[i][j].num, A[i][j].den)], Len(A))

\* sklearn normalize(A, norm='l2', axis=0): each column divided by its
\* norm, a column of norm 0 left as it is
normalize(A) ==
    [i \in 1..Len(A) |-> [j \in 1..Len(A[1]) |->
        LET n2 == ColumnSqNorm(A, j)
        IN  IF n2.num = 0 THEN A[i][j]
            ELSE [sgn |-> A[i][j].sgn,
                  num |-> Frac(A[i][j].num * n2.den, A[i][j].den * n2.num).num,
                  den |-> Frac(A[i][j].num * n2.den, A[i][j].den * n2.num).den]]]

\* line 220: A * ((r + 1) ** 0.5): the squares are multiplied by r + 1
ScaleByRadius(A, r) ==
    [i \in 1..Len(A) |-> [j \in 1..Len(A[1]) |->
        [sgn |-> A[i][j].sgn,
         num |-> Frac(A[i][j].num * (r + 1), A[i][j].den).num,
         den |-> Frac(A[i][j].num * (r + 1), A[i][j].den).den]]]

\* lines 210-221 on one outcome of get_eig_for_symmetric: Droot = sqrt of
\* the clipped eigenvalues on the diagonal, Drootm its first nDim rows,
\* matrixA[i][j] = sqrt(eigenvalue i) * eigenvectors[j][i]
Decompose(eig, nDim, r) ==
    LET eigenvalues == ClipNegative(eig.eigenvalues)
        N == Len(eigenvalues)
        matrixA == [i \in 1..nDim |-> [j \in 1..N |->
                      [sgn |-> Sign(eigenvalues[i]) * eig.eigenvectors[j][i].sgn,
                       num |-> Frac(eigenvalues[i] * eig.eigenvectors[j][i].num,
                                    eig.eigenvectors[j][i].den).num,
                       den |-> Frac(eigenvalues[i] * eig.eigenvectors[j][i].num,
                                    eig.eigenvectors[j][i].den).den]]]
    IN  ScaleByRadius(normalize(matrixA), r)

\* get_embeddings_mPCA(matrixG, nDim, r, abs_tol): every outcome
get_embeddings_mPCA(matrixG, nDim, r, abs_tol) ==
    LET valid == is_valid_matrix_g(matrixG, nDim)
    IN  IF valid.err # NoError
          THEN {[err |-> valid.err, events |-> <<"is_valid_matrix_g">>]}
          ELSE {IF eig.err # NoError
                  THEN [err |-> eig.err, events |-> <<"is_valid_matrix_g">>]
                ELSE IF \E i \in 1..valid.nDim :
                           ~PassesPSDCheck(eig.eigenvalues[i], abs_tol)
                  THEN [err |-> ErrNonPSD, events |-> <<"is_valid_matrix_g", "eigh">>]
                ELSE [err |-> NoError,
                      events |-> <<"is_valid_matrix_g", "eigh">>,
                      matrixA |-> Decompose(eig, valid.nDim, r)] :
                eig \in get_eig_for_symmetric(valid.matrixG)}

(***************************************************************************)
(* The calibration strategies.  The solver (PenCorr, run through octave)   *)
(* is outside src/; by its contract in the specification it returns a      *)
(* symmetric matrix of the dimension of G, here any X of SolverOutputs.    *)
(***************************************************************************)
ErrLinAlg == "LinAlgError: Last 2 dimensions of the array must be square"
ErrType == "TypeError: unsupported operand type(s) for -: 'int' and 'NoneType'"
ErrIndex == "IndexError: index out of bounds"

\* symmetric matrices of dimension n with unit diagonal, PSD or not: x in
\* entries (1, 2) and (2, 1), eigenvalues 1 + x, 1 - x and 1
SolverOutputs(n) ==
    {[j \in 1..n |-> [k \in 1..n |->
        IF j = k THEN 1 ELSE IF j <= 2 /\ k <= 2 THEN x ELSE 0]] : x \in 0..MaxEig}

\* pencorr(matrixG, nDim), X being what octave.pull("X") returns
pencorr(matrixG, nDim, X) ==
    LET valid == is_valid_matrix_g(matrixG, nDim)
    IN  IF valid.err # NoError
          THEN [err |-> valid.err, events |-> <<"is_valid_matrix_g">>]
          ELSE [err |-> NoError, events |-> <<"is_valid_matrix_g", "PenCorr">>,
                matrixGprime |-> X]

\* pencorr_weighted(matrixG, nDim, matrixH)
pencorr_weighted(matrixG, nDim, matrixH, X) ==
    LET valid == is_valid_matrix_g(matrixG, nDim)
    IN  IF valid.err # NoError
          THEN [err |-> valid.err, events |-> <<"is_valid_matrix_g">>]
          ELSE [err |-> NoError,
                events |-> <<"is_valid_matrix_g", "PenCorr_HnormMajorDiag">>,
                matrixGprime |-> X]

\* the shift with the sign reversed
ShiftDiagonalUp(matrixG, shift) ==
    [j \in 1..Len(matrixG) |-> [k \in 1..Len(matrixG[j]) |->
        IF j = k THEN matrixG[j][k] + shift ELSE matrixG[j][k]]]

\* matrixG - np.identity(len(matrixG)) * selected_eigenvalue
ShiftDiagonal(matrixG, shift) ==
    [j \in 1..Len(matrixG) |-> [k \in 1..Len(matrixG[j]) |->
        IF j = k THEN matrixG[j][k] - shift ELSE matrixG[j][k]]]

\* eigencorr(matrixG, nDim), lines 93-97.  eigenvalues[len(matrixG) - nDim]
\* is a Python index: 0-based, a negative one counting from the end.
eigencorr(matrixG, nDim) ==
    IF ~IsSquare(matrixG) THEN [err |-> ErrLinAlg, events |-> <<"eigh">>]
    ELSE IF nDim = None THEN [err |-> ErrType, events |-> <<"eigh">>]
    ELSE LET N == Len(matrixG)
             eigenvalues == (CHOOSE e \in eigh(matrixG) : TRUE).w
             index == N - nDim[1]
         IN  IF index >= N \/ index < -N
               THEN [err |-> ErrIndex, events |-> <<"eigh">>]
               ELSE LET selected_eigenvalue ==
                            IF index >= 0 THEN eigenvalues[index + 1]
                            ELSE eigenvalues[N + index + 1]
                    IN  [err |-> NoError, events |-> <<"eigh", "shift">>,
                         corr |-> ShiftDiagonal(matrixG, selected_eigenvalue),
                         radius |-> Abs(selected_eigenvalue)]

\* testcorr(matrixG, nDim), lines 106-110: the same statements as eigencorr
testcorr(matrixG, nDim) == eigencorr(matrixG, nDim)

\* testcorr100(matrixG, nDim), lines 119-121
testcorr100(matrixG, nDim) ==
    [err |-> NoError, events |-> <<"shift">>,
     corr |-> ShiftDiagonal(matrixG, -100), radius |-> 101]

\* dblcorr(matrixG, nDim, weight), lines 124-129
dblcorr(matrixG, nDim, weight, X) ==
    LET shifted == eigencorr(matrixG, nDim)
    IN  IF shifted.err # NoError THEN shifted
        ELSE LET solved == IF weight # None
                             THEN pencorr_weighted(shifted.corr, nDim, weight[1], X)
                             ELSE pencorr(shifted.corr, nDim, X)
             IN  IF solved.err # NoError
                   THEN [err |-> solved.err, events |-> shifted.events \o solved.events]
                   ELSE [err |-> NoError, events |-> shifted.events \o solved.events,
                         matrixGprime |-> solved.matrixGprime]

(***************************************************************************)
(* The calibration and extraction functions, each called on arguments      *)
(* drawn from: every matrix with eigenvalues in -MaxEig..MaxEig on one of  *)
(* the bases, of dimension up to MaxN, as it is or made asymmetric; every  *)
(* rank from 0 to N + 1 and the unspecified rank; no weight matrix or the  *)
(* all-ones one; for get_embeddings_mPCA, its default radius and           *)
(* tolerance or given ones.                                                *)
(***************************************************************************)
\* entry (1, 2) moved away from entry (2, 1), beyond the tolerance
MakeAsymmetric(g) ==
    [j \in 1..Len(g) |-> [k \in 1..Len(g) |->
        IF j = 1 /\ k = 2 THEN g[j][k] + 1 ELSE g[j][k]]]

\* the eigenvalues lam in descending order
Descending(lam) ==
    LET p == CHOOSE q \in Permutations(DOMAIN lam) :
                \A i \in 1..(Len(lam) - 1) : lam[q[i]] >= lam[q[i + 1]]
    IN  [i \in DOMAIN lam |-> lam[p[i]]]

ConstantMatrix(n, x) == [j \in 1..n |-> [k \in 1..n |-> x]]

WeightArgs(n) == {None, Some(ConstantMatrix(n, 1))}

RadiusArgs == {None, Some(0), Some(3)}

AbsTolArgs == {None, Some([num |-> 1, den |-> 1]), Some([num |-> 100, den |-> 1])}

InitEmbed ==
    /\ op = "input"
    /\ ret = [err |-> NoError]
    /\ events = << >>
    /\ \E n \in 1..MaxN : \E B \in Bases(n) : \E lam \in [1..n -> (-MaxEig)..MaxEig] :
       \E asym \in {FALSE, n >= 2} :
          /\ HasIntegerEntries(B, lam)
          /\ given = [eigenvalues |-> Descending(lam), asymmetric |-> asym]
          /\ LET g == IF asym THEN MakeAsymmetric(MatrixOf(B, lam)) ELSE MatrixOf(B, lam)
                 ranks == {None} \cup {Some(r) : r \in 0..(n + 1)}
             IN  \/ args \in [matrixG : {g}, nDim : ranks, weight : WeightArgs(n)]
                 \/ args \in [matrixG : {g}, nDim : ranks, r : RadiusArgs,
                              abs_tol : AbsTolArgs]

IsCalibrationCall == op = "input" /\ "weight" \in DOMAIN args

\* what a function returned or raised, without the log of its calls
Returned(out) == [f \in DOMAIN out \ {"events"} |-> out[f]]

Pencorr ==
    /\ IsCalibrationCall
    /\ args.weight = None
    /\ \E X \in SolverOutputs(Len(args.matrixG)) :
          LET out == pencorr(args.matrixG, args.nDim, X)
          IN  ret' = Returned(out) /\ events' = out.events
    /\ op' = "pencorr"
    /\ UNCHANGED <<args, given>>

PencorrWeighted ==
    /\ IsCalibrationCall
    /\ args.weight # None
    /\ \E X \in SolverOutputs(Len(args.matrixG)) :
          LET out == pencorr_weighted(args.matrixG, args.nDim, args.weight[1], X)
          IN  ret' = Returned(out) /\ events' = out.events
    /\ op' = "pencorr_weighted"
    /\ UNCHANGED <<args, given>>

Eigencorr ==
    /\ IsCalibrationCall
    /\ args.weight = None
    /\ LET out == eigencorr(args.matrixG, args.nDim)
       IN  ret' = Returned(out) /\ events' = out.events
    /\ op' = "eigencorr"
    /\ UNCHANGED <<args, given>>

Testcorr ==
    /\ IsCalibrationCall
    /\ args.weight = None
    /\ LET out == testcorr(args.matrixG, args.nDim)
       IN  ret' = Returned(out) /\ events' = out.events
    /\ op' = "testcorr"
    /\ UNCHANGED <<args, given>>

Testcorr100 ==
    /\ IsCalibrationCall
    /\ args.weight = None
    /\ LET out == testcorr100(args.matrixG, args.nDim)
       IN  ret' = Returned(out) /\ events' = out.events
    /\ op' = "testcorr100"
    /\ UNCHANGED <<args, given>>

Dblcorr ==
    /\ IsCalibrationCall
    /\ \E X \in SolverOutputs(Len(args.matrixG)) :
          LET out == dblcorr(args.matrixG, args.nDim, args.weight, X)
          IN  ret' = Returned(out) /\ events' = out.events
    /\ op' = "dblcorr"
    /\ UNCHANGED <<args, given>>

\* the default values of line 186: r=1, abs_tol=1e-5
DefaultRadius == 1

GetEmbeddingsMPCA ==
    /\ op = "input"
    /\ "abs_tol" \in DOMAIN args
    /\ \E out \in get_embeddings_mPCA(args.matrixG, args.nDim,
                     IF args.r = None THEN DefaultRadius ELSE args.r[1],
                     IF args.abs_tol = None THEN DefaultAbsTol ELSE args.abs_tol[1]) :
          ret' = Returned(out) /\ events' = out.events
    /\ op' = "get_embeddings_mPCA"
    /\ UNCHANGED <<args, given>>

NextEmbed ==
    \/ Pencorr \/ PencorrWeighted \/ Eigencorr \/ Testcorr \/ Testcorr100
    \/ Dblcorr \/ GetEmbeddingsMPCA

SpecEmbed == InitEmbed /\ [][NextEmbed]_vars

(***************************************************************************)
(* Claims on the calibration and extraction functions.                     *)
(***************************************************************************)
EmbedOps ==
    {"pencorr", "pencorr_weighted", "eigencorr", "testcorr", "testcorr100",
     "dblcorr", "get_embeddings_mPCA"}

\* the arguments the validator rejects: an asymmetric matrix, or a rank
\* given and outside 1..N
InvalidArgs ==
    \/ given.asymmetric
    \/ args.nDim # None /\ args.nDim[1] \notin 1..Len(args.matrixG)

\* C4: each of the seven operations calls is_valid_matrix_g before anything
\* else, and on an asymmetric matrix or a rank outside 1..N it ends with the
\* validator's error, having done nothing but that call.
C4_ValidatorRunsFirst ==
    op \in EmbedOps =>
        /\ events # << >> /\ events[1] = "is_valid_matrix_g"
        /\ InvalidArgs =>
              ret.err \in ValidatorErrors /\ events = <<"is_valid_matrix_g">>

\* the eigenvalue the PSD check fails on: the nDim-th largest, below -abs_tol
GivenRank == IF args.nDim = None THEN Len(args.matrixG) ELSE args.nDim[1]

RankthEigenvalueTooNegative ==
    LET abs_tol == IF args.abs_tol = None THEN DefaultAbsTol ELSE args.abs_tol[1]
    IN  given.eigenvalues[GivenRank] * abs_tol.den < -abs_tol.num

\* C5: on arguments the validator accepts, get_embeddings_mPCA raises the
\* non-PSD error exactly when the nDim-th largest eigenvalue is below
\* -abs_tol; otherwise it returns an embedding of nDim rows in which the
\* row of every negative eigenvalue is zero.
C5_NonPSDIffRankthEigenvalueBelowTolerance ==
    (op = "get_embeddings_mPCA" /\ ~InvalidArgs) =>
        /\ ret.err = ErrNonPSD <=> RankthEigenvalueTooNegative
        /\ ret.err = ErrNonPSD => "matrixA" \notin DOMAIN ret
        /\ ret.err # ErrNonPSD =>
              /\ ret.err = NoError
              /\ Len(ret.matrixA) = GivenRank
              /\ \A i \in 1..Len(ret.matrixA) :
                    given.eigenvalues[i] < 0 =>
                        \A j \in 1..Len(args.matrixG) : ret.matrixA[i][j].num = 0

\* the check has failed under a tolerance the caller gave: an eigenvalue
\* of -2 among the first nDim, abs_tol = 1
C5_Witness ==
    /\ op = "get_embeddings_mPCA"
    /\ ~InvalidArgs
    /\ args.abs_tol = Some([num |-> 1, den |-> 1])
    /\ ret.err = ErrNonPSD
    /\ RankthEigenvalueTooNegative

\* C6: with no radius given, every non-zero column of the embedding
\* get_embeddings_mPCA returns has squared Euclidean norm 1.
C6_UnitColumnsWithoutRadius ==
    (op = "get_embeddings_mPCA" /\ args.r = None /\ ret.err = NoError) =>
        \A j \in 1..Len(args.matrixG) :
            ColumnSqNorm(ret.matrixA, j) \in {Frac(0, 1), Frac(1, 1)}

\* the integer square root of a square
ISqrt(x) == CHOOSE s \in 0..x : s * s = x

\* (A.T @ A)[j][k] as a fraction in lowest terms, for A of signed roots
\* whose products are rational
Gram(A, j, k) ==
    FracSum([i \in 1..Len(A) |->
                LET f == Frac(A[i][j].num * A[i][k].num, A[i][j].den * A[i][k].den)
                IN  Frac(A[i][j].sgn * A[i][k].sgn * ISqrt(f.num), ISqrt(f.den))],
            Len(A))

\* G' is PSD with unit diagonal and at most nDim positive eigenvalues, and
\* get_embeddings_mPCA is called with its default radius and tolerance
ExactlyRepresentable ==
    /\ ~InvalidArgs
    /\ args.r = None /\ args.abs_tol = None
    /\ \A j \in 1..Len(args.matrixG) : args.matrixG[j][j] = 1
    /\ \A i \in 1..Len(args.matrixG) :
          /\ given.eigenvalues[i] >= 0
          /\ i > GivenRank => given.eigenvalues[i] = 0

\* C7: for G' PSD of rank at most nDim with unit diagonal, the embedding A
\* that get_embeddings_mPCA(G', nDim) returns has A.T @ A = G'.
C7_GramReconstructsInput ==
    (op = "get_embeddings_mPCA" /\ ExactlyRepresentable) =>
        /\ ret.err = NoError
        /\ \A j \in 1..Len(args.matrixG) : \A k \in 1..Len(args.matrixG) :
              Gram(ret.matrixA, j, k) = Frac(args.matrixG[j][k], 1)

(***************************************************************************)
(* The sampling harness, src/visualization/SamplingMethod.py.  An image is *)
(* a number 1..MaxImages (two images are equal iff their numbers are); an  *)
(* image set and a sample are sequences of images.  The image sets loaded  *)
(* by name come from src.data_processing.Utilities, which is not in src/:  *)
(* loading a name gives the set of that name, the same at every call.      *)
(***************************************************************************)
\* the images are 1..MaxImages
MaxImages == 3

ErrSampleSize == "Training and test sample size too large!"

ImageSetNames == {"front", "back"}

\* utils.generate_filtered_image_set(name, filters, filepath): "front" is
\* every image but the last, "back" every image but the first
generate_filtered_image_set(name) ==
    IF name = "front" THEN [i \in 1..(MaxImages - 1) |-> i]
    ELSE [i \in 1..(MaxImages - 1) |-> i + 1]

\* the images of a sequence
Images(a) == {a[i] : i \in DOMAIN a}

\* rng.choice(a, size, replace=False): size entries of a at distinct
\* positions, in any order; which ones depends on the generator's state
choice(a, size) ==
    {[i \in 1..size |-> a[p[i]]] :
        p \in {q \in [1..size -> DOMAIN a] :
                  \A i \in 1..size : \A j \in 1..size : q[i] = q[j] => i = j}}

RECURSIVE NotIn(_, _)
\* [image for image in a if image not in b]
NotIn(a, b) ==
    IF a = << >> THEN << >>
    ELSE IF a[1] \in Images(b) THEN NotIn(Tail(a), b)
    ELSE <<a[1]>> \o NotIn(Tail(a), b)

\* generate_random_sample(imageSet, testSampleSize, trainingSampleSize):
\* every outcome
generate_random_sample(imageSet, testSampleSize, trainingSampleSize) ==
    IF testSampleSize + trainingSampleSize > Len(imageSet)
      THEN {[err |-> ErrSampleSize]}
      ELSE UNION {{[err |-> NoError, testSample |-> testSample,
                    trainingSample |-> trainingSample] :
                      testSample \in choice(NotIn(imageSet, trainingSample),
                                            testSampleSize)} :
                  trainingSample \in choice(imageSet, trainingSampleSize)}

\* the whole image set, every image but the last, every image but the first
ImageSets ==
    {[i \in 1..MaxImages |-> i]} \cup {generate_filtered_image_set(n) : n \in ImageSetNames}

\* The arguments of one trial of a harness entry point: the image set (for
\* the entry points that take one), the names of the sets to load (for
\* those that load them) and the sizes of the samples.
InitSample ==
    /\ op = "input"
    /\ ret = [err |-> NoError]
    /\ events = << >>
    /\ given = << >>
    /\ args \in [imageSet : ImageSets, trainingSet : ImageSetNames,
                 testSet : ImageSetNames,
                 trainingSize : 0..(MaxImages - 1), testSize : 0..(MaxImages - 1)]

\* the samples of a trial, as SampleEstimator and SampleTester get them
Sampled(name, out) ==
    /\ op = "input"
    /\ op' = name
    /\ ret' = out
    /\ events' = <<"generate_random_sample">>
    /\ UNCHANGED <<args, given>>

\* line 67
TrialRankConstraint ==
    \E out \in generate_random_sample(args.imageSet, args.testSize, args.trainingSize) :
        Sampled("investigate_tester_rank_constraint", out)

\* line 130
TrialTrainingSize ==
    \E out \in generate_random_sample(args.imageSet, args.testSize, args.trainingSize) :
        Sampled("investigate_training_size", out)

\* line 207
TrialTrainingSizeForImageProducts ==
    \E out \in generate_random_sample(args.imageSet, args.testSize, args.trainingSize) :
        Sampled("investigate_training_size_for_image_products", out)

\* line 292
TrialRankConstraintForImageProducts ==
    \E out \in generate_random_sample(args.imageSet, args.testSize, args.trainingSize) :
        Sampled("investigate_tester_rank_constraint_for_image_products", out)

\* lines 337-345 and 372-376
TrialSampleAndTestSets ==
    LET full_training_image_set == generate_filtered_image_set(args.trainingSet)
        full_test_image_set == generate_filtered_image_set(args.testSet)
    IN  IF args.trainingSet = args.testSet
          THEN \E out \in generate_random_sample(full_training_image_set,
                                                 args.testSize, args.trainingSize) :
                  Sampled("investigate_sample_and_test_sets", out)
          ELSE \E tr \in generate_random_sample(full_training_image_set,
                                                0, args.trainingSize) :
               \E te \in generate_random_sample(full_test_image_set,
                                                args.testSize, 0) :
                  Sampled("investigate_sample_and_test_sets",
                          IF tr.err # NoError THEN tr
                          ELSE IF te.err # NoError THEN te
                          ELSE [err |-> NoError, testSample |-> te.testSample,
                                trainingSample |-> tr.trainingSample])

\* lines 433-443: the test sample is the whole test set
TrialSamplePlateauRank ==
    LET full_training_image_set == generate_filtered_image_set(args.trainingSet)
        test_sample == generate_filtered_image_set(args.testSet)
    IN  \E tr \in generate_random_sample(full_training_image_set, 0, args.trainingSize) :
           Sampled("investigate_sample_plateau_rank",
                   IF tr.err # NoError THEN tr
                   ELSE [err |-> NoError, testSample |-> test_sample,
                         trainingSample |-> tr.trainingSample])

NextSample ==
    \/ TrialRankConstraint \/ TrialTrainingSize
    \/ TrialTrainingSizeForImageProducts \/ TrialRankConstraintForImageProducts
    \/ TrialSampleAndTestSets \/ TrialSamplePlateauRank

SpecSample == InitSample /\ [][NextSample]_vars

HarnessEntryPoints ==
    {"investigate_tester_rank_constraint", "investigate_training_size",
     "investigate_training_size_for_image_products",
     "investigate_tester_rank_constraint_for_image_products",
     "investigate_sample_and_test_sets", "investigate_sample_plateau_rank"}

NoRepetition(a) == \A i \in DOMAIN a : \A j \in DOMAIN a : a[i] = a[j] => i = j

\* C11: in a trial of any entry point, the training and the test sample
\* share no image, neither repeats an image, and their sizes are the
\* requested ones (investigate_sample_plateau_rank takes no test size).
C11_SamplesDisjointAndSized ==
    (op \in HarnessEntryPoints /\ ret.err = NoError) =>
        /\ Images(ret.trainingSample) \cap Images(ret.testSample) = {}
        /\ NoRepetition(ret.trainingSample) /\ NoRepetition(ret.testSample)
        /\ Len(ret.trainingSample) = args.trainingSize
        /\ op # "investigate_sample_plateau_rank" =>
              Len(ret.testSample) = args.testSize

(***************************************************************************)
(* The sweeps of investigate_tester_rank_constraint and                    *)
(* investigate_training_size.  `args` holds the keyword arguments, `op`    *)
(* the entry point once it has started, `ret` its local variables, the     *)
(* position `pc` in its loops and the error it raised, `events` one entry  *)
(* per step taken (trial, averaging, plot) and `given` the testers built   *)
(* for each swept value.  SampleEstimator and SampleTester are not in      *)
(* src/: a tester is known by the two values read from it, its mean normed *)
(* k-neighbour score for each k and its aveFrobDistance.                   *)
(***************************************************************************)
\* ranks and training sizes of a sweep are 1..MaxRank
MaxRank == 3

\* trials=5, lines 25 and 96
DefaultTrials == 5

\* the testers a trial may build
Testers == {1, 2}

\* sampleTester.aveFrobDistance
aveFrobDistance(tester) == tester

\* metrics.get_mean_normed_k_neighbour_score(sampleTester.matrixG,
\* sampleTester.matrixGprime, k), in units of 1/12
KNeighbourScoreOf(tester, k) == 12 \div (tester + k)

ErrRankSweep == "Starting rank constraint must be lower than ending constraint"
ErrSizeSweep == "Starting sample size must be lower than ending"
ErrNotIterable == "TypeError: 'NoneType' object is not iterable"
ErrZeroDivision == "ZeroDivisionError: division by zero"

\* what can fail in a trial: the sampling, the estimator, the tester, the
\* metric
TrialErrors ==
    {ErrSampleSize, "SampleEstimator failed", "SampleTester failed",
     "get_mean_normed_k_neighbour_score failed"}

\* how a trial ends: with a tester built, or with an error
TrialOutcomes ==
    [err : {NoError}, sampleTester : Testers]
        \cup [err : TrialErrors, sampleTester : {0}]

\* list(range(start, stop, step)) for step >= 1
range(start, stop, step) ==
    [i \in 1..(IF stop > start THEN (stop - start + step - 1) \div step ELSE 0) |->
        start + (i - 1) * step]

\* the sweep stopping before endingConstr
RankSweepStopExclusive(endingConstr) == endingConstr

\* line 53: range(startingConstr, endingConstr + 1, increment)
RankSweepStop(endingConstr) == endingConstr + 1

\* sum(arr) / len(arr), exactly: the fraction sum / len, not reduced
SumSeq(arr) == SumTo(arr, Len(arr))

Average(arr) == [num |-> SumSeq(arr), den |-> Len(arr)]

\* [[] for i in specifiedKArr]
EmptyPerK(specifiedKArr) == [i \in DOMAIN specifiedKArr |-> << >>]

\* the trial lists kept from the swept value before
KeptFromBefore(arrays) == arrays

\* lines 62-63 and 124-125: the trial lists start empty for each swept value
FreshTrialArrays(arrays) ==
    [arrays EXCEPT !.aveNeighArr = EmptyPerK(arrays.specifiedKArr),
                   !.frobDistanceArr = << >>,
                   !.j = 0]

\* the trial skipped, the sweep going on
SkipFailedTrial(locals, e) == [locals EXCEPT !.j = @ + 1]

\* nothing catches an exception of a trial: the entry point ends with it
RaiseFromTrial(locals, e) == [locals EXCEPT !.pc = "raised", !.err = e]

SweepArgs ==
    [entry : {"investigate_tester_rank_constraint", "investigate_training_size"},
     start : 1..MaxRank, end : 1..MaxRank, increment : {1, 2},
     specifiedKArr : {None, Some(<<1, 2>>)}, plotFrob : BOOLEAN,
     trials : {Some(0), Some(1), Some(2)}]

InitSweep ==
    /\ op = "input"
    /\ ret = [err |-> NoError]
    /\ events = << >>
    /\ given = << >>
    /\ \/ args \in SweepArgs
       \/ args \in [entry : {"investigate_tester_rank_constraint",
                             "investigate_training_size"},
                    start : {1}, end : {2}, increment : {1},
                    specifiedKArr : {Some(<<1>>)}, plotFrob : {TRUE},
                    trials : {None}]

\* lines 45-53 and 113-118: the checks of the arguments and the list of
\* swept values
StartSweep ==
    /\ op = "input"
    /\ "entry" \in DOMAIN args
    /\ op' = args.entry
    /\ LET isRank == args.entry = "investigate_tester_rank_constraint"
           specifiedKArr == IF args.specifiedKArr = None THEN <<5>>
                            ELSE args.specifiedKArr[1]
           swept == IF isRank
                      THEN range(args.start, RankSweepStop(args.end), args.increment)
                      ELSE range(args.start, args.end, args.increment)
       IN  ret' =
             IF isRank /\ args.start >= args.end
               THEN [err |-> ErrRankSweep, pc |-> "raised"]
             ELSE IF ~isRank /\ args.start > args.end
               THEN [err |-> ErrSizeSweep, pc |-> "raised"]
             ELSE IF ~isRank /\ args.specifiedKArr = None
               THEN [err |-> ErrNotIterable, pc |-> "raised"]
             ELSE FreshTrialArrays(
                    [err |-> NoError,
                     pc |-> IF swept = << >> THEN "plot" ELSE "trial",
                     swept |-> swept, index |-> 1, j |-> 0,
                     trials |-> IF args.trials = None THEN DefaultTrials
                                ELSE args.trials[1],
                     specifiedKArr |-> specifiedKArr,
                     aveNeighArr |-> EmptyPerK(specifiedKArr),
                     frobDistanceArr |-> << >>,
                     allAveNeighArr |-> EmptyPerK(specifiedKArr),
                     aveFrobDistanceArr |-> << >>])
    /\ events' = << >>
    /\ given' = << >>
    /\ UNCHANGED args

InSweep(pc) == op # "input" /\ "entry" \in DOMAIN args /\ ret.pc = pc

\* lines 65-80 and 128-141: one trial, which builds a tester and appends
\* its values, or fails
Trial ==
    /\ InSweep("trial")
    /\ ret.j < ret.trials
    /\ \E outcome \in TrialOutcomes :
          /\ ret' =
               IF outcome.err # NoError THEN RaiseFromTrial(ret, outcome.err)
               ELSE [ret EXCEPT
                       !.aveNeighArr = [i \in DOMAIN @ |->
                           Append(@[i], KNeighbourScoreOf(outcome.sampleTester,
                                                          ret.specifiedKArr[i]))],
                       !.frobDistanceArr =
                           Append(@, aveFrobDistance(outcome.sampleTester)),
                       !.j = @ + 1]
          /\ events' = Append(events,
                 [step |-> "trial", value |-> ret.swept[ret.index], j |-> ret.j,
                  err |-> outcome.err])
          /\ given' = IF outcome.err # NoError THEN given
                      ELSE [i \in 1..ret.index |->
                              IF i <= Len(given)
                                THEN (IF i = ret.index
                                        THEN Append(given[i], outcome.sampleTester)
                                        ELSE given[i])
                                ELSE <<outcome.sampleTester>>]
    /\ UNCHANGED <<op, args>>

\* lines 81-83 and 142-144: after the trials of a swept value, the means
\* are appended and the next swept value starts
AverageTrials ==
    /\ InSweep("trial")
    /\ ret.j = ret.trials
    /\ ret' =
         IF ret.trials = 0 THEN [ret EXCEPT !.pc = "raised", !.err = ErrZeroDivision]
         ELSE FreshTrialArrays(
                [ret EXCEPT
                   !.allAveNeighArr = [l \in DOMAIN @ |->
                                          Append(@[l], Average(ret.aveNeighArr[l]))],
                   !.aveFrobDistanceArr = Append(@, Average(ret.frobDistanceArr)),
                   !.index = @ + 1,
                   !.pc = IF ret.index = Len(ret.swept) THEN "plot" ELSE "trial"])
    /\ events' = Append(events, [step |-> "average", value |-> ret.swept[ret.index],
                                 j |-> ret.j,
                                 err |-> IF ret.trials = 0 THEN ErrZeroDivision
                                         ELSE NoError])
    /\ UNCHANGED <<op, args, given>>

\* lines 85-92 and 146-153: the averaged values are plotted against the
\* swept values
Plot ==
    /\ InSweep("plot")
    /\ ret' = [ret EXCEPT !.pc = "done"]
    /\ events' = Append(events, [step |-> "plot", value |-> 0, j |-> 0,
                                 err |-> NoError])
    /\ UNCHANGED <<op, args, given>>

NextSweep == StartSweep \/ Trial \/ AverageTrials \/ Plot

SpecSweep == InitSweep /\ [][NextSweep]_vars

(***************************************************************************)
(* Claims on the sweeps.                                                   *)
(***************************************************************************)
InSweepSpec == op # "input" /\ "entry" \in DOMAIN args

\* the mean of f over the testers built for a swept value
MeanOver(testers, f(_)) ==
    [num |-> SumTo([j \in DOMAIN testers |-> f(testers[j])], Len(testers)),
     den |-> Len(testers)]

\* the swept values that got a step of the given kind, in the order of the
\* steps
ValuesOf(step) ==
    LET sel == SelectSeq(events, LAMBDA e : e.step = step /\ e.err = NoError)
    IN  [i \in DOMAIN sel |-> sel[i].value]

\* C12: for every swept value whose average has been reported, exactly
\* `trials` testers were built for it and each reported value (per k, and
\* the Frobenius distance) is the mean of those testers' values; one
\* average is reported per swept value, in the order of the sweep.
C12_AveragesOverExactlyTrials ==
    (InSweepSpec /\ "swept" \in DOMAIN ret) =>
        /\ \A i \in 1..Len(ret.aveFrobDistanceArr) :
              /\ Len(given) >= i
              /\ Len(given[i]) = ret.trials
              /\ ret.aveFrobDistanceArr[i] = MeanOver(given[i], aveFrobDistance)
              /\ \A l \in DOMAIN ret.specifiedKArr :
                    /\ Len(ret.allAveNeighArr[l]) = Len(ret.aveFrobDistanceArr)
                    /\ ret.allAveNeighArr[l][i] =
                          MeanOver(given[i],
                                   LAMBDA t : KNeighbourScoreOf(t, ret.specifiedKArr[l]))
        /\ ValuesOf("average") = SubSeq(ret.swept, 1, Len(ret.aveFrobDistanceArr))
        /\ ret.pc = "done" => Len(ret.aveFrobDistanceArr) = Len(ret.swept)

\* a sweep of two values or more has ended, with two trials each that built
\* different testers for the first value
C12_Witness ==
    /\ InSweepSpec /\ "swept" \in DOMAIN ret
    /\ ret.pc = "done"
    /\ Len(ret.swept) >= 2
    /\ ret.trials = 2
    /\ given[1][1] # given[1][2]

\* the ranks that got a trial
EvaluatedRanks == {events[i].value : i \in {n \in DOMAIN events : events[n].step = "trial"}}

\* C13 as stated: with startingConstr <= endingConstr the rank sweep is
\* run, and it evaluates startingConstr, startingConstr + increment, ... in
\* increasing order, startingConstr and endingConstr included.
C13_RankSweepInclusive ==
    (InSweepSpec /\ op = "investigate_tester_rank_constraint"
        /\ args.start <= args.end) =>
        /\ ret.err # ErrRankSweep
        /\ ret.pc = "done" =>
              /\ args.start \in EvaluatedRanks /\ args.end \in EvaluatedRanks
              /\ \A i \in DOMAIN ret.swept :
                    ret.swept[i] = args.start + (i - 1) * args.increment

\* C13, amended: the rank sweep is refused exactly when startingConstr >=
\* endingConstr; otherwise it evaluates startingConstr, startingConstr +
\* increment, ... in increasing order up to the last such rank that is at
\* most endingConstr, so that endingConstr is evaluated exactly when
\* increment divides endingConstr - startingConstr.
C13_RankSweepStepsUpToEnd ==
    (InSweepSpec /\ op = "investigate_tester_rank_constraint") =>
        /\ ret.err = ErrRankSweep <=> args.start >= args.end
        /\ ret.pc = "done" =>
              /\ \A i \in DOMAIN ret.swept :
                    /\ ret.swept[i] = args.start + (i - 1) * args.increment
                    /\ ret.swept[i] <= args.end
              /\ ret.swept[Len(ret.swept)] + args.increment > args.end
              /\ ValuesOf("average") = ret.swept
              /\ EvaluatedRanks = {ret.swept[i] : i \in DOMAIN ret.swept}
              /\ args.start \in EvaluatedRanks
              /\ args.end \in EvaluatedRanks
                    <=> (args.end - args.start) % args.increment = 0

\* a rank sweep has ended without evaluating endingConstr
C13_Witness ==
    /\ InSweepSpec /\ op = "investigate_tester_rank_constraint"
    /\ ret.pc = "done"
    /\ args.end \notin EvaluatedRanks

\* C14: a step that fails is the last step of the sweep, and the sweep has
\* ended with the error of that step: no trial, average or plot follows.
C14_FirstTrialFailureEndsSweep ==
    InSweepSpec =>
        \A i \in DOMAIN events :
            events[i].err # NoError =>
                /\ i = Len(events)
                /\ ret.pc = "raised"
                /\ ret.err = events[i].err
                /\ Len(ret.aveFrobDistanceArr) < ret.index

\* a trial has failed after the averages of an earlier swept value and an
\* earlier trial of this one
C14_Witness ==
    /\ InSweepSpec /\ "swept" \in DOMAIN ret
    /\ ret.pc = "raised" /\ ret.err \in TrialErrors
    /\ ret.index >= 2 /\ ret.j >= 1
    /\ events[Len(events)].step = "trial" /\ events[Len(events)].err = ret.err

(***************************************************************************)
(* get_embedding_matrix and its embedding-type tags.  A tag is a sequence  *)
(* of tokens: the names "pencorr", "eigencorr", "testcorr", "dblcorr" and  *)
(* "python", the characters "_" and "x", and the digits; "testcorr100" is  *)
(* "testcorr" followed by "1", "0", "0".  No name contains another, so a   *)
(* regular expression finds a name in the string exactly where the token   *)
(* is.                                                                     *)
(***************************************************************************)
Digits == {"0", "1", "2", "3"}

DigitValue(d) == CASE d = "0" -> 0 [] d = "1" -> 1 [] d = "2" -> 2 [] d = "3" -> 3

ErrEmbeddingType == " is not a valid embedding type"

\* tag[i..] is name, "_", and digits up to the end: the match of
\* name_[0-9]*[0-9]$ at i
MatchesAt(tag, name, i) ==
    LET d == i + Len(name) + 1
    IN  /\ d <= Len(tag)
        /\ SubSeq(tag, i, i + Len(name) - 1) = name
        /\ tag[d - 1] = "_"
        /\ \A n \in d..Len(tag) : tag[n] \in Digits

\* the pattern anchored at the start of the tag
MatchesWhole(tag, name) == MatchesAt(tag, name, 1)

\* re.search(name_[0-9]*[0-9]$, tag) is not None
Search(tag, name) == \E i \in 1..Len(tag) : MatchesAt(tag, name, i)

RECURSIVE int(_)
\* int() of a run of digits
int(digits) ==
    IF digits = << >> THEN 0
    ELSE 10 * int(SubSeq(digits, 1, Len(digits) - 1)) + DigitValue(digits[Len(digits)])

\* int(re.search(r'\d+', tag).group()): the leftmost run of digits
FirstNumber(tag) ==
    LET first == CHOOSE i \in 1..Len(tag) :
                    tag[i] \in Digits /\ \A n \in 1..(i - 1) : tag[n] \notin Digits
        last == CHOOSE n \in first..Len(tag) :
                    /\ \A m \in first..n : tag[m] \in Digits
                    /\ n = Len(tag) \/ tag[n + 1] \notin Digits
    IN  int(SubSeq(tag, first, last))

\* int(re.search(r'\d+$', tag).group()): the run of digits at the end
LastNumber(tag) ==
    LET first == CHOOSE i \in 1..Len(tag) :
                    /\ \A n \in i..Len(tag) : tag[n] \in Digits
                    /\ i = 1 \/ tag[i - 1] \notin Digits
    IN  int(SubSeq(tag, first, Len(tag)))

\* lines 139-164: the branch taken, and the rank read from the tag
Strategy(embeddingType) ==
    IF Search(embeddingType, <<"pencorr">>)
      THEN [name |-> "pencorr", nDim |-> FirstNumber(embeddingType)]
    ELSE IF Search(embeddingType, <<"eigencorr">>)
      THEN [name |-> "eigencorr", nDim |-> FirstNumber(embeddingType)]
    ELSE IF Search(embeddingType, <<"testcorr">>)
      THEN [name |-> "testcorr", nDim |-> FirstNumber(embeddingType)]
    ELSE IF Search(embeddingType, <<"testcorr", "1", "0", "0">>)
      THEN [name |-> "testcorr100", nDim |-> LastNumber(embeddingType)]
    ELSE IF Search(embeddingType, <<"dblcorr">>)
      THEN [name |-> "dblcorr", nDim |-> LastNumber(embeddingType)]
    ELSE [name |-> "none", nDim |-> 0]

\* the outcomes of get_embeddings_mPCA on what a calibration returned, or
\* the error of the calibration; events are the calls made, in order, and
\* extraction is the call of get_embeddings_mPCA with its arguments, if made
ThenMPCA(name, calibrated, matrixGprime, nDim, r, abs_tol) ==
    IF calibrated.err # NoError
      THEN {[err |-> calibrated.err, events |-> <<name>> \o calibrated.events,
             extraction |-> None]}
      ELSE {[e EXCEPT !.events = <<name>> \o calibrated.events
                                    \o <<"get_embeddings_mPCA">> \o @]
               @@ ("extraction" :> Some([matrixG |-> matrixGprime, nDim |-> nDim,
                                         r |-> r, abs_tol |-> abs_tol])) :
              e \in get_embeddings_mPCA(matrixGprime, Some(nDim), r, abs_tol)}

\* the call of a calibration function with its arguments
CalibrationCall(fn, matrixG, nDim, weight) ==
    Some([fn |-> fn, matrixG |-> matrixG, nDim |-> nDim, weight |-> weight])

\* the test of the weight for None only
NoneOnly(imageProductMatrix, weightMatrix) == weightMatrix = None

\* line 141: weightMatrix is None or np.array_equal(weightMatrix,
\* np.ones_like(imageProductMatrix))
default_weight(imageProductMatrix, weightMatrix) ==
    \/ weightMatrix = None
    \/ weightMatrix[1] = ConstantMatrix(Len(imageProductMatrix), 1)

\* abs_tol=100, lines 154 and 158
LooseAbsTol == [num |-> 100, den |-> 1]

\* the abs_tol of the call of get_embeddings_mPCA in the eigencorr branch,
\* line 150: none is passed
EigencorrAbsTol == DefaultAbsTol

\* the weight of the call of dblcorr, line 161: none is passed
DblcorrWeight(weightMatrix) == None

\* get_embedding_matrix(imageProductMatrix, embeddingType, weightMatrix),
\* X being what the solver returns if it is called: every outcome, with the
\* calibration function called and its arguments
get_embedding_matrix(imageProductMatrix, embeddingType, weightMatrix, X) ==
    LET s == Strategy(embeddingType)
        nDim == Some(s.nDim)
        default == default_weight(imageProductMatrix, weightMatrix)
        Called(outs, fn, weight) ==
            {o @@ ("calibration" :>
                      CalibrationCall(fn, imageProductMatrix, s.nDim, weight)) :
               o \in outs}
    IN  CASE s.name = "pencorr" ->
               LET c == IF default
                          THEN pencorr(imageProductMatrix, nDim, X)
                          ELSE pencorr_weighted(imageProductMatrix, nDim,
                                                weightMatrix[1], X)
               IN  Called(ThenMPCA(IF default THEN "pencorr" ELSE "pencorr_weighted",
                                   c, X, s.nDim, DefaultRadius, DefaultAbsTol),
                          IF default THEN "pencorr" ELSE "pencorr_weighted",
                          IF default THEN None ELSE weightMatrix)
          [] s.name = "eigencorr" ->
               LET c == eigencorr(imageProductMatrix, nDim)
               IN  Called(ThenMPCA("eigencorr", c,
                                   IF c.err = NoError THEN c.corr ELSE << >>,
                                   s.nDim, IF c.err = NoError THEN c.radius ELSE 0,
                                   EigencorrAbsTol),
                          "eigencorr", None)
          [] s.name = "testcorr" ->
               LET c == testcorr(imageProductMatrix, nDim)
               IN  Called(ThenMPCA("testcorr", c,
                                   IF c.err = NoError THEN c.corr ELSE << >>,
                                   s.nDim, IF c.err = NoError THEN c.radius ELSE 0,
                                   LooseAbsTol),
                          "testcorr", None)
          [] s.name = "testcorr100" ->
               LET c == testcorr100(imageProductMatrix, nDim)
               IN  Called(ThenMPCA("testcorr100", c, c.corr, s.nDim, c.radius,
                                   LooseAbsTol),
                          "testcorr100", None)
          [] s.name = "dblcorr" ->
               LET c == dblcorr(imageProductMatrix, nDim,
                                DblcorrWeight(weightMatrix), X)
               IN  Called(ThenMPCA("dblcorr", c, X, s.nDim, DefaultRadius,
                                   DefaultAbsTol),
                          "dblcorr", DblcorrWeight(weightMatrix))
          [] OTHER -> {[err |-> ErrEmbeddingType, events |-> << >>,
                        calibration |-> None, extraction |-> None]}

\* The tags of the model: a strategy name or another word, "_" or nothing,
\* a rank of one or two digits or none, with or without something before
\* and after.
TagNames ==
    {<<"pencorr">>, <<"eigencorr">>, <<"testcorr">>, <<"testcorr", "1", "0", "0">>,
     <<"dblcorr">>, <<"x">>, <<"pencorr", "_", "python">>}

\* the digits of the ranks 1 .. MaxN + 1
RankDigits ==
    {<<d>> : d \in {e \in Digits : DigitValue(e) \in 1..(MaxN + 1)}}

Tags ==
    {pre \o name \o sep \o rank \o post :
        pre \in {<< >>, <<"x">>, <<"3">>, <<"eigencorr", "_", "1", "_">>},
        name \in TagNames, sep \in {<< >>, <<"_">>},
        rank \in {<< >>, <<"1", "2">>} \cup RankDigits,
        post \in {<< >>, <<"x">>}}

InitTag ==
    /\ op = "input"
    /\ ret = [err |-> NoError]
    /\ events = << >>
    /\ given = << >>
    /\ \E imageProductMatrix \in SolverOutputs(MaxN) :
          args \in [imageProductMatrix : {imageProductMatrix},
                    embeddingType : Tags,
                    weightMatrix : {None, Some(ConstantMatrix(MaxN, 1)),
                                    Some(ConstantMatrix(MaxN, 2))}]

GetEmbeddingMatrix ==
    /\ op = "input"
    /\ "embeddingType" \in DOMAIN args
    /\ \E X \in SolverOutputs(MaxN) :
       \E out \in get_embedding_matrix(args.imageProductMatrix, args.embeddingType,
                                       args.weightMatrix, X) :
          /\ ret' = [f \in DOMAIN out \ {"events", "calibration", "extraction"} |->
                        out[f]]
          /\ events' = out.events
          /\ given' = [calibration |-> out.calibration, extraction |-> out.extraction]
    /\ op' = "get_embedding_matrix"
    /\ UNCHANGED args

NextTag == GetEmbeddingMatrix

SpecTag == InitTag /\ [][NextTag]_vars

\* the five forms of a supported tag: the name, "_", an integer
SupportedNames ==
    [pencorr |-> <<"pencorr">>, eigencorr |-> <<"eigencorr">>,
     testcorr |-> <<"testcorr">>, testcorr100 |-> <<"testcorr", "1", "0", "0">>,
     dblcorr |-> <<"dblcorr">>]

NamedStrategies == {n \in DOMAIN SupportedNames : MatchesWhole(args.embeddingType, SupportedNames[n])}

\* C15: a tag of none of the five forms fails with the error of an invalid
\* embedding type and nothing is called; a tag of one of the forms runs the
\* strategy it names, with the rank it names.
C15_TagSelectsStrategyOrFailsFast ==
    op = "get_embedding_matrix" =>
        /\ NamedStrategies = {} =>
              ret.err = ErrEmbeddingType /\ events = << >>
        /\ \A n \in NamedStrategies :
              /\ events # << >>
              /\ events[1] = n \/ (n = "pencorr" /\ events[1] = "pencorr_weighted")
              /\ Strategy(args.embeddingType).nDim = LastNumber(args.embeddingType)

(***************************************************************************)
(* The plateau search of investigate_sample_plateau_rank, lines 445-510,   *)
(* for one trial of one training set.  `ret` holds the loop variables and  *)
(* the position `pc`; `given` says what the evaluations return: in mode    *)
(* "monotone" the score of a rank is 1, the maximum, exactly for ranks     *)
(* >= p and 0 below; in mode "any" each evaluation returns 0 or 1 as it    *)
(* likes.  `given` also remembers the last three iterations, for the       *)
(* properties.  The evaluation itself (SampleEstimator, SampleTester) is   *)
(* not in src/.  `iterations` is only ever compared with 0 (line 468): it  *)
(* is counted up to MaxIterations and kept there.                          *)
(***************************************************************************)
\* training sizes are 1..MaxTraining
MaxTraining == 16
\* the iterations are counted up to MaxIterations
MaxIterations == 8

\* prox=3, line 409
DefaultProx == 3

\* max_k_score = 2, line 449: a value no score has
InitialMaxKScore == 2

ProxArgs == {None, Some(0), Some(1)}

\* k_score of an evaluation at selected_rank: the scores it may return
KScores(selected_rank) ==
    IF given.mode = "monotone"
      THEN {IF selected_rank >= given.p THEN 1 ELSE 0}
      ELSE {0, 1}

\* convergence accepted after one equal score already
ConfirmedAfterOne(same_rank) == same_rank = 1

\* convergence accepted after three equal scores only
ConfirmedAfterThree(same_rank) == same_rank = 3

\* line 489: elif same_rank == 2
PlateauConfirmed(same_rank) == same_rank = 2

InitPlateau ==
    /\ op = "input"
    /\ ret = [err |-> NoError]
    /\ events = << >>
    /\ \E training_size \in 1..MaxTraining :
          /\ args \in [training_size : {training_size}, prox : ProxArgs]
          /\ given \in [mode : {"monotone"}, p : 1..training_size, before : {<< >>}]
                          \cup [mode : {"any"}, p : {0}, before : {<< >>}]

\* lines 443-455: the loop variables, and the first test of the loop
StartPlateauTrial ==
    /\ op = "input"
    /\ "prox" \in DOMAIN args
    /\ op' = "investigate_sample_plateau_rank"
    /\ LET prox == IF args.prox = None THEN DefaultProx ELSE args.prox[1]
           high == args.training_size
           low == 0
       IN  ret' = [err |-> NoError,
                   pc |-> IF high - low > prox THEN "loop" ELSE "done",
                   prox |-> prox, high |-> high, low |-> low,
                   selected_rank |-> high, max_k_score |-> InitialMaxKScore,
                   iterations |-> 0, same_rank |-> 0, score_change |-> FALSE,
                   max_score_rank |-> << >>, ave_neigh_arr |-> << >>,
                   broke |-> FALSE]
    /\ UNCHANGED <<args, events, given>>

\* selected_rank = low; iterations += 1 (lines 503-504), then the test of
\* the loop, line 455
NextIteration(locals) ==
    [locals EXCEPT !.selected_rank = locals.low,
                   !.iterations = IF @ < MaxIterations THEN @ + 1 ELSE @,
                   !.pc = IF locals.high - locals.low > locals.prox
                            THEN "loop" ELSE "done"]

\* lines 456-505: one iteration of the while loop
Iterate ==
    /\ op = "investigate_sample_plateau_rank"
    /\ ret.pc = "loop"
    /\ \E k_score \in KScores(ret.selected_rank) :
          /\ ret' =
               IF ~ret.score_change THEN
                  IF ret.iterations = 0 THEN
                     NextIteration([ret EXCEPT
                        !.max_k_score = k_score,
                        !.ave_neigh_arr = Append(@, k_score),
                        !.high = args.training_size,
                        !.low = args.training_size \div 2])
                  ELSE IF k_score = ret.max_k_score THEN
                     NextIteration([ret EXCEPT
                        !.high = ret.low,
                        !.low = ret.low \div 2])
                  ELSE
                     NextIteration([ret EXCEPT
                        !.score_change = TRUE,
                        !.low = ((ret.high - ret.low) \div 2) + ret.low])
               ELSE IF k_score # ret.max_k_score THEN
                  NextIteration([ret EXCEPT
                     !.low = ((ret.high - ret.low) \div 2) + ret.low,
                     !.max_score_rank = << >>,
                     !.same_rank = 0])
               ELSE IF PlateauConfirmed(ret.same_rank) THEN
                  [ret EXCEPT
                     !.high = ret.max_score_rank[1],
                     !.iterations = IF @ < MaxIterations THEN @ + 1 ELSE @,
                     !.broke = TRUE,
                     !.pc = "done"]
               ELSE
                  NextIteration([ret EXCEPT
                     !.max_score_rank = Append(@, ret.low),
                     !.low = ret.low + ((ret.high - ret.low) \div 4),
                     !.same_rank = @ + 1])
          /\ given' = [given EXCEPT !.before =
                          (IF Len(@) <= 2 THEN @ ELSE SubSeq(@, 2, 3))
                             \o <<[score_change |-> ret.score_change,
                                   equal |-> k_score = ret.max_k_score,
                                   rank |-> ret.selected_rank]>>]
    /\ UNCHANGED <<op, args, events>>

\* lines 509-512 for this trial: the plateau rank is `high`, and the mean
\* of ave_neigh_arr is taken
RecordPlateau ==
    /\ op = "investigate_sample_plateau_rank"
    /\ ret.pc = "done"
    /\ ret' = IF ret.ave_neigh_arr = << >>
                THEN [ret EXCEPT !.pc = "raised", !.err = ErrZeroDivision]
                ELSE [ret EXCEPT !.pc = "recorded"]
    /\ UNCHANGED <<op, args, events, given>>

NextPlateau == StartPlateauTrial \/ Iterate \/ RecordPlateau

SpecPlateau == InitPlateau /\ [][NextPlateau]_vars

\* the loop goes on as long as its test holds
SpecPlateauFair == SpecPlateau /\ WF_vars(NextPlateau)

(***************************************************************************)
(* Claims on the plateau search.                                           *)
(***************************************************************************)
LoopEnded ==
    op = "investigate_sample_plateau_rank" /\ ret.pc \in {"done", "recorded", "raised"}

\* C16: the while loop `high - low > prox` of the plateau search ends,
\* whatever the training size, prox >= 0 and the scores returned.
C16_PlateauSearchTerminates == <>LoopEnded

\* C17: with a score that is maximal exactly for the ranks >= p and the
\* default prox, the plateau rank recorded (the final `high`) is between p
\* and p + prox.
C17_PlateauRankWithinProx ==
    (LoopEnded /\ given.mode = "monotone" /\ args.prox = None) =>
        given.p <= ret.high /\ ret.high <= given.p + DefaultProx

\* C20: the search breaks only after two iterations in a row that came
\* after the score had changed and whose score equalled max_k_score; and
\* after an iteration whose score differs from max_k_score the count of
\* equal scores is 0 and no plateau rank is recorded.
C20_BreakNeedsTwoEqualScores ==
    (op = "investigate_sample_plateau_rank" /\ given.before # << >>) =>
        /\ ret.broke =>
              /\ Len(given.before) = 3
              /\ \A i \in 1..3 :
                    given.before[i].score_change /\ given.before[i].equal
        /\ ~given.before[Len(given.before)].equal =>
              ret.same_rank = 0 /\ ret.max_score_rank = << >>

\* the search has broken out of the loop, `high` being the first plateau
\* rank recorded
C20_Witness ==
    /\ op = "investigate_sample_plateau_rank"
    /\ ret.broke
    /\ ret.high = ret.max_score_rank[1]

InPlateauLoop == op = "investigate_sample_plateau_rank" /\ ret.pc = "loop"

\* C28: while the search is in its loop, 0 <= low <= high <= training
\* size, and the rank about to be evaluated is in 1..training size.
C28_SearchStaysWithinRanks ==
    InPlateauLoop =>
        /\ 0 <= ret.low /\ ret.low <= ret.high /\ ret.high <= args.training_size
        /\ ret.selected_rank \in 1..args.training_size

\* C29: the first iteration of a trial evaluates the rank `training size`
\* and a trial leaves the loop with exactly one K score recorded, so that
\* the mean of the K scores is not taken over an empty list.
C29_OneScorePerTrial ==
    /\ (InPlateauLoop /\ ret.iterations = 0) =>
          ret.selected_rank = args.training_size
    /\ LoopEnded =>
          Len(ret.ave_neigh_arr) = 1 /\ ret.err # ErrZeroDivision

\* C30: in the search, max_score_rank has same_rank entries and same_rank
\* is 0, 1 or 2; in the loop every entry is at most `high`; and when the
\* search breaks, `high` becomes the first entry, which is the rank
\* evaluated three iterations before, with a score equal to max_k_score.
C30_MaxScoreRankMatchesSameRank ==
    op = "investigate_sample_plateau_rank" =>
        /\ Len(ret.max_score_rank) = ret.same_rank
        /\ ret.same_rank \in {0, 1, 2}
        /\ InPlateauLoop =>
              \A i \in DOMAIN ret.max_score_rank : ret.max_score_rank[i] <= ret.high
        /\ ret.broke =>
              /\ Len(given.before) = 3
              /\ ret.high = ret.max_score_rank[1]
              /\ given.before[1].rank = ret.max_score_rank[1]
              /\ given.before[1].equal

\* the search has broken out after raising `low` from the first plateau
\* rank to a higher second one
C30_Witness ==
    /\ op = "investigate_sample_plateau_rank"
    /\ ret.broke
    /\ ret.same_rank = 2
    /\ ret.max_score_rank[1] < ret.max_score_rank[2]
    /\ given.before[1].rank = ret.high

(***************************************************************************)
(* The image comparator ncc and produceG of                                *)
(* src/data_processing/ConceptTesting.py, on binary images.  A value of    *)
(* ncc is a normed correlation c >= 0; it is carried as the fraction c^2   *)
(* in lowest terms, NaN as 0/0.  cv2.matchTemplate is OpenCV's: for        *)
(* TM_CCORR_NORMED its value at a window W is sum(W * T) divided by        *)
(* sqrt(sum(W^2) * sum(T^2)), and for an all-zero template this is 0/0,    *)
(* which a build may return as 0 or as NaN.                                *)
(***************************************************************************)
\* images have ImageSide rows and columns, as those of produceG (line 18)
ImageSide == 2

BinaryImages == [1..ImageSide -> [1..ImageSide -> {0, 1}]]

\* np.sum(img)
ImageSum(img) ==
    SumTo([i \in 1..Len(img) |-> SumTo(img[i], Len(img[i]))], Len(img))

NaN == [num |-> 0, den |-> 0]

\* the values of 0/0 in matchTemplate
ZeroOverZero == {Frac(0, 1), NaN}

\* np.pad(img, width, 'wrap')
PadWrap(img, width) ==
    LET R == Len(img)
        C == Len(img[1])
        \* width is a multiple of neither R nor C in general: Python's modulo
        at(i, n) == ((i - 1 - width) % n) + 1
    IN  [i \in 1..(R + 2 * width) |-> [j \in 1..(C + 2 * width) |->
            img[at(i, R)][at(j, C)]]]

\* the window of the shape of templ at row y, column x of image
Window(image, templ, y, x) ==
    [i \in 1..Len(templ) |-> [j \in 1..Len(templ[1]) |-> image[y + i - 1][x + j - 1]]]

\* sum(a * b) for two arrays of one shape
DotImages(a, b) ==
    SumTo([i \in 1..Len(a) |->
              SumTo([j \in 1..Len(a[i]) |-> a[i][j] * b[i][j]], Len(a[i]))], Len(a))

\* cv2.matchTemplate(image, templ, cv2.TM_CCORR_NORMED): the squares of the
\* values of corr, zero being what a 0/0 gives
matchTemplate(image, templ, zero) ==
    {LET W == Window(image, templ, y, x)
         den == DotImages(W, W) * DotImages(templ, templ)
     IN  IF den = 0 THEN zero
         ELSE Frac(DotImages(W, templ) * DotImages(W, templ), den) :
       y \in 1..(Len(image) - Len(templ) + 1),
       x \in 1..(Len(image[1]) - Len(templ[1]) + 1)}

\* max_val of cv2.minMaxLoc(corr)
max_val(corr) ==
    IF NaN \in corr THEN NaN
    ELSE CHOOSE f \in corr : \A g \in corr : f.num * g.den >= g.num * f.den

Maximum(a, b) == IF a >= b THEN a ELSE b

\* ncc(mainImg, tempImg), lines 181-196
ncc(mainImg, tempImg, zero) ==
    IF ImageSum(mainImg) = 0
      THEN [res |-> IF ImageSum(tempImg) = 0 THEN Frac(1, 1) ELSE Frac(0, 1),
            events |-> << >>]
      ELSE LET padded == PadWrap(mainImg, Maximum(Len(mainImg), Len(mainImg[1])))
           IN  [res |-> max_val(matchTemplate(padded, tempImg, zero)),
                events |-> <<"matchTemplate">>]

\* img_set of produceG, line 18
img_set ==
    <<<<<<0, 0>>, <<0, 0>>>>, <<<<0, 1>>, <<0, 0>>>>, <<<<0, 1>>, <<0, 1>>>>,
      <<<<0, 1>>, <<1, 0>>>>, <<<<0, 0>>, <<1, 1>>>>, <<<<0, 1>>, <<1, 1>>>>,
      <<<<1, 1>>, <<1, 1>>>>>>

\* produceG(), lines 17-26, zero[i][j] being what a 0/0 gives in the call
\* for row i and column j
produceG(zero) ==
    [i \in DOMAIN img_set |-> [j \in DOMAIN img_set |->
        ncc(img_set[i], img_set[j], zero[i][j]).res]]

InitNcc ==
    /\ op = "input"
    /\ ret = [err |-> NoError]
    /\ events = << >>
    /\ given = << >>
    /\ \/ args \in [mainImg : BinaryImages, tempImg : BinaryImages]
       \/ args = [img_set |-> img_set]

Ncc ==
    /\ op = "input"
    /\ "mainImg" \in DOMAIN args
    /\ \E zero \in ZeroOverZero :
          LET out == ncc(args.mainImg, args.tempImg, zero)
          IN  ret' = [err |-> NoError, res |-> out.res] /\ events' = out.events
    /\ op' = "ncc"
    /\ UNCHANGED <<args, given>>

ProduceG ==
    /\ op = "input"
    /\ "img_set" \in DOMAIN args
    /\ \E column \in [DOMAIN img_set -> ZeroOverZero] :
          ret' = [err |-> NoError,
                  G |-> produceG([i \in DOMAIN img_set |-> column])]
    /\ op' = "produceG"
    /\ events' = <<"ncc">>
    /\ UNCHANGED <<args, given>>

NextNcc == Ncc \/ ProduceG

SpecNcc == InitNcc /\ [][NextNcc]_vars

\* C18: ncc(zero, zero) = 1, ncc(zero, x) = 0 = ncc(x, zero) for x not
\* zero, each decided without a call of matchTemplate; and the matrix of
\* produceG is symmetric.
C18_DegenerateCasesSymmetric ==
    /\ op = "ncc" =>
          LET mainZero == ImageSum(args.mainImg) = 0
              tempZero == ImageSum(args.tempImg) = 0
          IN  /\ (mainZero /\ tempZero) => ret.res = Frac(1, 1) /\ events = << >>
              /\ (mainZero # tempZero) => ret.res = Frac(0, 1) /\ events = << >>
    /\ op = "produceG" =>
          \A i \in DOMAIN ret.G : \A j \in DOMAIN ret.G : ret.G[i][j] = ret.G[j][i]

(***************************************************************************)
(* Claims on what get_embedding_matrix passes to the calibration and the   *)
(* extraction.  `given` holds the two calls with their arguments.          *)
(***************************************************************************)
Called == {events[i] : i \in DOMAIN events}

ShiftBased == {"eigencorr", "testcorr", "testcorr100"}

\* C21: when get_embedding_matrix calls get_embeddings_mPCA, the absolute
\* tolerance of the PSD check is 100 in the branches eigencorr, testcorr
\* and testcorr100, and the default 1e-5 in the branches pencorr and
\* dblcorr.
C21_ShiftStrategiesUseLooseTolerance ==
    (op = "get_embedding_matrix" /\ given.extraction # None) =>
        LET name == Strategy(args.embeddingType).name
            abs_tol == given.extraction[1].abs_tol
        IN  /\ name \in ShiftBased => abs_tol = LooseAbsTol
            /\ name \in {"pencorr", "dblcorr"} => abs_tol = DefaultAbsTol

\* the ascending spectrum of a symmetric matrix
Spectrum(g) == (CHOOSE e \in eigh(g) : TRUE).w

EigencorrWithValidRank ==
    /\ op = "get_embedding_matrix"
    /\ Strategy(args.embeddingType).name = "eigencorr"
    /\ Strategy(args.embeddingType).nDim \in 1..Len(args.imageProductMatrix)

\* C22: in the eigencorr branch with a rank r in 1..N, the matrix handed to
\* the extraction has the spectrum of G lowered by the r-th largest
\* eigenvalue of G, so its r-th largest eigenvalue is 0 and its r largest
\* are not negative; the radius is the absolute value of that eigenvalue;
\* and the extraction does not fail with the error of a matrix that is not
\* positive semidefinite.
C22_EigencorrShiftsRankthEigenvalueToZero ==
    EigencorrWithValidRank =>
        LET N == Len(args.imageProductMatrix)
            r == Strategy(args.embeddingType).nDim
            e == Spectrum(args.imageProductMatrix)
        IN  /\ given.extraction # None
            /\ LET shifted == Spectrum(given.extraction[1].matrixG)
               IN  /\ \A i \in 1..N : shifted[i] = e[i] - e[N - r + 1]
                   /\ shifted[N - r + 1] = 0
                   /\ \A i \in (N - r + 1)..N : shifted[i] >= 0
            /\ given.extraction[1].r = Abs(e[N - r + 1])
            /\ ret.err # ErrNonPSD

\* the eigencorr branch has shifted a matrix by an eigenvalue that is not
\* 0, leaving a negative eigenvalue below the rank, and the extraction has
\* returned
C22_Witness ==
    /\ EigencorrWithValidRank
    /\ ret.err = NoError
    /\ given.extraction[1].r # 0
    /\ \E i \in 1..Len(args.imageProductMatrix) :
          Spectrum(given.extraction[1].matrixG)[i] < 0

\* C23: with a weight matrix that is not all ones, a branch that runs the
\* solver runs the weighted one, with that matrix; the unweighted solver
\* runs only without a weight matrix or with the all-ones one.
C23_NonUniformWeightReachesSolver ==
    op = "get_embedding_matrix" =>
        LET uniform == default_weight(args.imageProductMatrix, args.weightMatrix)
        IN  /\ "PenCorr" \in Called => uniform
            /\ (~uniform /\ "PenCorr_HnormMajorDiag" \in Called) =>
                  given.calibration[1].weight = args.weightMatrix

\* what the pencorr branch does on the current matrix and tag with the
\* weight matrix w, for each X the solver may return
OutcomesWithWeight(w) ==
    [X \in SolverOutputs(Len(args.imageProductMatrix)) |->
        get_embedding_matrix(args.imageProductMatrix, args.embeddingType, w, X)]

OnPencorrPathWithUniformWeight ==
    /\ op = "get_embedding_matrix"
    /\ Strategy(args.embeddingType).name = "pencorr"
    /\ default_weight(args.imageProductMatrix, args.weightMatrix)

\* C24: in the pencorr branch, no weight matrix and the all-ones weight
\* matrix do the same: pencorr is called with G and the rank,
\* pencorr_weighted is not, and the outcomes are the same for both.
C24_AllOnesWeightIsNoWeight ==
    OnPencorrPathWithUniformWeight =>
        /\ given.calibration =
              CalibrationCall("pencorr", args.imageProductMatrix,
                              Strategy(args.embeddingType).nDim, None)
        /\ events[1] = "pencorr"
        /\ "PenCorr_HnormMajorDiag" \notin Called
        /\ OutcomesWithWeight(None)
              = OutcomesWithWeight(Some(ConstantMatrix(Len(args.imageProductMatrix), 1)))

\* the pencorr branch has run the solver with the all-ones weight matrix
C24_Witness ==
    /\ OnPencorrPathWithUniformWeight
    /\ args.weightMatrix # None
    /\ "PenCorr" \in Called

\* C26: for a tag that is accepted, the rank passed to the calibration,
\* and to the extraction if it is reached, is the integer of the digits at
\* the end of the tag.
C26_RankIsTrailingInteger ==
    (op = "get_embedding_matrix" /\ given.calibration # None) =>
        /\ given.calibration[1].nDim = LastNumber(args.embeddingType)
        /\ given.extraction # None =>
              given.extraction[1].nDim = LastNumber(args.embeddingType)

(***************************************************************************)
(* The seeds of the samples.  np.random.default_rng(seed) makes a new      *)
(* generator whose state is fixed by the seed, and rng.choice returns what *)
(* the state of the generator, the array and the size determine, moving    *)
(* the generator on (numpy's contract; numpy is not in src/).  A generator *)
(* is its seed and the number of draws made; `given` holds, for each draw  *)
(* made so far, what it returned, and a draw not made before returns any   *)
(* of the values of choice.  The sweep of                                  *)
(* investigate_tester_rank_constraint is followed only for its samples:    *)
(* `events` has one entry for each trial with the rank, the trial number   *)
(* and the two samples.                                                    *)
(***************************************************************************)
\* seed=500 + seed, line 158
SeedOffset == 500

\* one generator kept from call to call instead of a new one
SharedGenerator(seed, shared) == shared

\* rng = np.random.default_rng(seed=500 + seed), line 158
default_rng(seed, shared) == [seed |-> SeedOffset + seed, draws |-> 0]

\* rng.choice(a, size, replace=False) for the generator rng: the value,
\* the generator after the draw, and the draws known after it
Drawn(rng, a, size, memo) ==
    LET key == [rng |-> rng, a |-> a, size |-> size]
        known == {m \in memo : m.key = key}
        after == [rng EXCEPT !.draws = @ + 1]
    IN  IF known # {}
          THEN {[value |-> m.value, rng |-> after, memo |-> memo] : m \in known}
          ELSE {[value |-> v, rng |-> after,
                 memo |-> memo \cup {[key |-> key, value |-> v]}] :
                  v \in choice(a, size)}

\* generate_random_sample(imageSet, testSampleSize, trainingSampleSize,
\* seed), lines 155-162, with the draws known before: every outcome
seeded_random_sample(imageSet, testSampleSize, trainingSampleSize, seed, shared, memo) ==
    IF testSampleSize + trainingSampleSize > Len(imageSet)
      THEN {[err |-> ErrSampleSize, rng |-> shared, memo |-> memo]}
      ELSE UNION {{[err |-> NoError, testSample |-> te.value,
                    trainingSample |-> tr.value, rng |-> te.rng, memo |-> te.memo] :
                      te \in Drawn(tr.rng, NotIn(imageSet, tr.value),
                                   testSampleSize, tr.memo)} :
                  tr \in Drawn(default_rng(seed, shared), imageSet,
                               trainingSampleSize, memo)}

TrialCounts == {1, 2}

InitSeed ==
    /\ op = "input"
    /\ ret = [err |-> NoError]
    /\ events = << >>
    /\ given = {}
    /\ args \in [imageSet : ImageSets, testSize : 0..(MaxImages - 1),
                 sampleSize : 0..(MaxImages - 1), startingConstr : {1},
                 endingConstr : 2..MaxRank, increment : {1}, trials : TrialCounts]

\* lines 45-56: the sweep starts at its first rank
StartSeedSweep ==
    /\ op = "input"
    /\ op' = "investigate_tester_rank_constraint"
    /\ ret' = [err |-> NoError, pc |-> "trial", rank |-> args.startingConstr, j |-> 0,
               rng |-> [seed |-> SeedOffset, draws |-> 0]]
    /\ UNCHANGED <<args, events, given>>

\* lines 65-67: the samples of trial j of the current rank, and on to the
\* next trial, the next rank or the end
SeededTrial ==
    /\ op = "investigate_tester_rank_constraint"
    /\ ret.pc = "trial"
    /\ \E out \in seeded_random_sample(args.imageSet, args.testSize,
                                       args.sampleSize, ret.j, ret.rng, given) :
          /\ given' = out.memo
          /\ IF out.err # NoError
               THEN /\ ret' = [ret EXCEPT !.pc = "raised", !.err = out.err]
                    /\ UNCHANGED events
               ELSE /\ events' = Append(events,
                          [rank |-> ret.rank, j |-> ret.j,
                           testSample |-> out.testSample,
                           trainingSample |-> out.trainingSample])
                    /\ ret' =
                          IF ret.j + 1 < args.trials
                            THEN [ret EXCEPT !.j = @ + 1, !.rng = out.rng]
                          ELSE IF ret.rank + args.increment
                                    < RankSweepStop(args.endingConstr)
                            THEN [ret EXCEPT !.rank = @ + args.increment, !.j = 0,
                                             !.rng = out.rng]
                          ELSE [ret EXCEPT !.pc = "done", !.rng = out.rng]
    /\ UNCHANGED <<op, args>>

NextSeed == StartSeedSweep \/ SeededTrial

SpecSeed == InitSeed /\ [][NextSeed]_vars

\* C27: two calls of generate_random_sample with equal arguments return
\* equal samples; in the sweep, where the seed of trial j is j, trial j of
\* every rank has the training and the test sample of trial j of every
\* other rank.
C27_SameSeedSameSamples ==
    \A x \in DOMAIN events : \A y \in DOMAIN events :
        events[x].j = events[y].j =>
            /\ events[x].trainingSample = events[y].trainingSample
            /\ events[x].testSample = events[y].testSample

\* trial 1 has been run for two ranks, on samples that are proper parts of
\* the image set and are not those of trial 0
C27_Witness ==
    \E x \in DOMAIN events : \E y \in DOMAIN events : \E z \in DOMAIN events :
        /\ events[x].j = 1 /\ events[y].j = 1 /\ events[z].j = 0
        /\ events[x].rank # events[y].rank
        /\ events[x].trainingSample # << >> /\ events[x].testSample # << >>
        /\ events[z].trainingSample # events[x].trainingSample
        /\ events[z].testSample # events[x].testSample

=============================================================================
